---- MODULE Spec2Model ----
(***************************************************************************)
(* Model of the todo_list_backend canister (src/todo_list_backend/src/     *)
(* lib.rs): a stable u64 counter cell (ID_COUNTER), a stable B-tree map    *)
(* from u64 to Candid-encoded Todo records (STORAGE), and the five         *)
(* exported methods get_todo, add_todo, update_todo, delete_todo and       *)
(* update_status.                                                          *)
(*                                                                         *)
(* Text (Rust String) is a sequence of bytes; Option<T> is <<>> (None) or  *)
(* <<x>> (Some(x)).  STORAGE holds the bytes produced by Storable::        *)
(* to_bytes; every read decodes them with Storable::from_bytes.            *)
(***************************************************************************)
EXTENDS Integers, Sequences, FiniteSets, TLC

VARIABLES
  ID_COUNTER,  \* the value the counter cell holds in the heap
  CELL_MEMORY, \* the bytes of the counter cell in stable memory 0
  STORAGE,     \* the map in stable memory 1: id -> encoded Todo
  time,        \* ic_cdk::api::time()
  issued,      \* history: the ids of the records add_todo returned, in order
  removed,     \* history: id -> reply kind of the delete_todo that removed it
  life,        \* history of each stored record: created_at and owner at
               \* creation, time of the last update that replied Ok
  rec,         \* codec runs: the record under test
  wire,        \* codec runs: <<its encoding>> once encoded
  back         \* codec runs: <<the decoded record>> once decoded

codecVars == <<rec, wire, back>>

vars ==
  <<ID_COUNTER, CELL_MEMORY, STORAGE, time, issued, removed, life, rec, wire,
    back>>

-----------------------------------------------------------------------------
(* Bounds of the exploration *)

\* add_todo is explored while the counter is below this value
MaxId == 2
\* the platform clock is explored up to this value
MaxTime == 1

-----------------------------------------------------------------------------
(* Program constants *)

\* BoundedStorable for Todo: const MAX_SIZE: u32 = 2048
MAX_SIZE == 2048

\* Initial value handed to IdCell::init
INITIAL_COUNTER == 0

None == <<>>
Some(x) == <<x>>

TaskStatus == {"Pending", "InProgress", "Completed"}
Priority == {"Low", "Medium", "High", "Urgent"}

\* Candid orders variant tags by the hash of their names; the wire value of
\* a variant is its position in that order (0-based).
TaskStatusTags == <<"InProgress", "Completed", "Pending">>
PriorityTags == <<"Low", "High", "Medium", "Urgent">>

\* "DIDL", the type table of Todo (record of 9 fields sorted by field hash,
\* variant TaskStatus, opt nat64, variant Priority), one argument of type 0.
Header ==
  <<68, 73, 68, 76, 4,
    108, 9, 219, 183, 1, 120, 178, 206, 239, 47, 1, 152, 171, 236, 129, 1,
    113, 183, 255, 245, 129, 1, 2, 179, 176, 218, 195, 3, 113, 252, 145,
    244, 248, 5, 113, 170, 172, 217, 208, 6, 120, 217, 251, 142, 132, 11, 2,
    228, 246, 249, 217, 11, 3,
    107, 3, 210, 129, 208, 198, 13, 127, 235, 130, 174, 136, 15, 127, 183,
    128, 247, 201, 15, 127,
    110, 120,
    107, 4, 244, 152, 232, 1, 127, 130, 199, 157, 255, 2, 127, 149, 145,
    243, 154, 3, 127, 225, 149, 151, 163, 14, 127,
    1, 0>>

-----------------------------------------------------------------------------
(* Binary codec: Encode!(self) / Decode!(bytes, Self) for Todo *)

RECURSIVE LEB128(_)
LEB128(n) ==
  IF n < 128 THEN <<n>> ELSE <<128 + (n % 128)>> \o LEB128(n \div 128)

RECURSIVE LittleEndian(_, _)
LittleEndian(n, k) ==
  IF k = 0 THEN <<>> ELSE <<n % 256>> \o LittleEndian(n \div 256, k - 1)

\* an encoder that keeps only the low byte of a number
EncNat64_LowByte(n) == LittleEndian(n % 256, 8)

EncNat64(n) == LittleEndian(n, 8)
EncText(s) == LEB128(Len(s)) \o s
\* an encoder that writes every optional field as absent
EncOpt_Absent(o) == <<0>>

EncOpt(o) == IF o = None THEN <<0>> ELSE <<1>> \o EncNat64(o[1])
EncVariant(v, tags) == <<(CHOOSE i \in 1..Len(tags) : tags[i] = v) - 1>>

\* Storable::to_bytes: fields are written in ascending field-hash order:
\* id, status, title, updated_at, owner, description, created_at, due_date,
\* priority.
to_bytes(todo) ==
  Header
    \o EncNat64(todo.id)
    \o EncVariant(todo.status, TaskStatusTags)
    \o EncText(todo.title)
    \o EncOpt(todo.updated_at)
    \o EncText(todo.owner)
    \o EncText(todo.description)
    \o EncNat64(todo.created_at)
    \o EncOpt(todo.due_date)
    \o EncVariant(todo.priority, PriorityTags)

RECURSIVE ReadLEB128(_, _)
ReadLEB128(b, p) ==
  IF b[p] < 128
    THEN [val |-> b[p], next |-> p + 1]
    ELSE LET r == ReadLEB128(b, p + 1)
         IN [val |-> (b[p] - 128) + 128 * r.val, next |-> r.next]

RECURSIVE FromLittleEndian(_)
FromLittleEndian(s) ==
  IF s = <<>> THEN 0 ELSE s[1] + 256 * FromLittleEndian(Tail(s))

ReadNat64(b, p) ==
  [val |-> FromLittleEndian(SubSeq(b, p, p + 7)), next |-> p + 8]

ReadText(b, p) ==
  LET l == ReadLEB128(b, p)
  IN [val |-> SubSeq(b, l.next, l.next + l.val - 1), next |-> l.next + l.val]

ReadOpt(b, p) ==
  IF b[p] = 0
    THEN [val |-> None, next |-> p + 1]
    ELSE LET r == ReadNat64(b, p + 1) IN [val |-> Some(r.val), next |-> r.next]

ReadVariant(b, p, tags) == [val |-> tags[b[p] + 1], next |-> p + 1]

\* Storable::from_bytes: Decode!(..).unwrap() panics on bytes that do not
\* carry the type description of Todo.
from_bytes(b) ==
  IF Len(b) < Len(Header) \/ SubSeq(b, 1, Len(Header)) # Header
    THEN "panic"
    ELSE
      LET f_id == ReadNat64(b, Len(Header) + 1)
          f_status == ReadVariant(b, f_id.next, TaskStatusTags)
          f_title == ReadText(b, f_status.next)
          f_updated_at == ReadOpt(b, f_title.next)
          f_owner == ReadText(b, f_updated_at.next)
          f_description == ReadText(b, f_owner.next)
          f_created_at == ReadNat64(b, f_description.next)
          f_due_date == ReadOpt(b, f_created_at.next)
          f_priority == ReadVariant(b, f_due_date.next, PriorityTags)
      IN [id |-> f_id.val,
          title |-> f_title.val,
          description |-> f_description.val,
          status |-> f_status.val,
          priority |-> f_priority.val,
          due_date |-> f_due_date.val,
          created_at |-> f_created_at.val,
          updated_at |-> f_updated_at.val,
          owner |-> f_owner.val]

-----------------------------------------------------------------------------
(* Inputs supplied by the platform and the callers *)

\* ic_cdk::caller().to_string(): "2vxsx-fae" and "aaaaa-aa"
Alice == <<50, 118, 120, 115, 120, 45, 102, 97, 101>>
Bob == <<97, 97, 97, 97, 97, 45, 97, 97>>
Callers == {Alice, Bob}

\* A record with empty title and description, no optional field, owned by
\* Bob; it measures the fixed part of an encoded record.
BlankTodo ==
  [id |-> 0, title |-> <<>>, description |-> <<>>, status |-> "Pending",
   priority |-> "Low", due_date |-> None, created_at |-> 0,
   updated_at |-> None, owner |-> Bob]

\* Length of the title with which Bob's freshly added record (empty
\* description, no due date) encodes to exactly MAX_SIZE bytes; the length
\* prefix of such a title takes two bytes instead of one.  The same record
\* owned by Alice, whose name is one byte longer, takes MAX_SIZE + 1 bytes.
EdgeLen == MAX_SIZE - Len(to_bytes(BlankTodo)) - 1

EmptyTitle == <<>>
BlankTitle == <<32, 9>>
PaddedTitle == <<32, 98, 10>>
EdgeTitle == [i \in 1..EdgeLen |-> 97]

Payloads ==
  { [title |-> EmptyTitle, description |-> <<>>, priority |-> "High",
     due_date |-> None],
    [title |-> BlankTitle, description |-> <<100>>, priority |-> "Urgent",
     due_date |-> Some(0)],
    [title |-> PaddedTitle, description |-> <<100>>, priority |-> "Medium",
     due_date |-> Some(1)],
    [title |-> EdgeTitle, description |-> <<>>, priority |-> "Low",
     due_date |-> None] }

\* ids used as arguments: every id the counter can have issued, and one more
Ids == 0..MaxId

-----------------------------------------------------------------------------
(* Helpers of the record service *)

\* char::is_whitespace restricted to ASCII
IsWhitespace(c) == c \in {9, 10, 11, 12, 13, 32}

\* str::trim_start
RECURSIVE trim_start(_)
trim_start(s) ==
  IF s # <<>> /\ IsWhitespace(s[1]) THEN trim_start(Tail(s)) ELSE s

\* str::trim_end
RECURSIVE trim_end(_)
trim_end(s) ==
  IF s # <<>> /\ IsWhitespace(s[Len(s)])
    THEN trim_end(SubSeq(s, 1, Len(s) - 1))
    ELSE s

\* str::trim
trim(s) == trim_end(trim_start(s))

\* payload.title.trim().is_empty()
TitleIsEmpty(payload) == trim(payload.title) = <<>>

\* a set that returns the value without storing it
CellSet_NotStored(cell, value) == [cell |-> cell, ret |-> cell]

\* a set that returns the value it has stored
CellSet_ReturnsNew(cell, value) == [cell |-> value, ret |-> value]

\* Cell::set stores the new value and returns the value it replaces
CellSet(cell, value) == [cell |-> value, ret |-> cell]

\* u64::to_bytes / from_bytes of the stable structures: big-endian
RECURSIVE BigEndian(_, _)
BigEndian(n, k) ==
  IF k = 0 THEN <<>> ELSE BigEndian(n \div 256, k - 1) \o <<n % 256>>

RECURSIVE FromBigEndian(_)
FromBigEndian(s) ==
  IF s = <<>> THEN 0
  ELSE 256 * FromBigEndian(SubSeq(s, 1, Len(s) - 1)) + s[Len(s)]

\* the cell in its memory: magic "SCL", layout version 1, the length of the
\* value (u32), the value
CellBytes(value) == <<83, 67, 76, 1>> \o LittleEndian(8, 4) \o BigEndian(value, 8)

\* an initialiser that always writes the default, as Cell::new does
CellInit_New(memory, default) ==
  [value |-> default, memory |-> CellBytes(default)]

\* IdCell::init(memory, default): the cell the memory holds if it holds one,
\* a new cell with the default value (written to the memory) otherwise
CellInit(memory, default) ==
  IF memory = <<>>
    THEN [value |-> default, memory |-> CellBytes(default)]
    ELSE [value |-> FromBigEndian(SubSeq(memory, 9, 16)), memory |-> memory]

\* StableBTreeMap::init(memory): the map the memory holds (the empty map
\* for an empty memory); the handle keeps no entry in the heap
MapInit(memory) == memory

\* an ownership check that lets every caller through
NotOwner_Never(todo, caller) == FALSE

\* todo.owner != ic_cdk::caller().to_string()
NotOwner(todo, caller) == todo.owner # caller

\* StableBTreeMap::get: the decoded value, None if the key is absent
MapGet(map, id) ==
  IF id \in DOMAIN map THEN Some(from_bytes(map[id])) ELSE None

\* a remove that empties the map
MapRemove_Clears(map, id) == <<>>

\* a remove that leaves the entry in place
MapRemove_Keeps(map, id) == map

\* StableBTreeMap::remove: the map without the key
MapRemove(map, id) == [k \in DOMAIN map \ {id} |-> map[k]]

\* StableBTreeMap::insert: an upsert of the encoded value; a value longer
\* than MAX_SIZE makes insert panic.
MapInsert(map, id, todo) ==
  LET bytes == to_bytes(todo)
  IN IF Len(bytes) > MAX_SIZE
       THEN [ok |-> FALSE, map |-> map]
       ELSE [ok |-> TRUE,
             map |-> [k \in DOMAIN map \cup {id} |->
                        IF k = id THEN bytes ELSE map[k]]]

\* an insert under the key after the record's id
do_insert_NextKey(map, todo) == MapInsert(map, todo.id + 1, todo)

do_insert(map, todo) == MapInsert(map, todo.id, todo)

_get_todo(map, id) == MapGet(map, id)

Ok(todo) == [kind |-> "Ok", todo |-> todo]
NotFound(msg) == [kind |-> "NotFound", msg |-> msg]
InvalidInput(msg) == [kind |-> "InvalidInput", msg |-> msg]
\* a panic inside a call: the platform discards the writes of the call
Trap == [kind |-> "Trap"]

-----------------------------------------------------------------------------
(* The exported methods.  Each takes the canister state st (the counter    *)
(* cell and the map), the inputs of the call and, where the method reads   *)
(* them, the caller and the platform time; it yields the state after the   *)
(* call and the reply.                                                     *)

Reply(st, res) == [st |-> st, result |-> res]

\* add_todo: the record built from the payload
NewTodo(id, payload, now, caller) ==
  [id |-> id,
   title |-> payload.title,
   description |-> payload.description,
   status |-> "Pending",
   priority |-> payload.priority,
   due_date |-> payload.due_date,
   created_at |-> now,
   updated_at |-> None,
   owner |-> caller]

\* an update that also resets the status
ApplyPayload_ResetsStatus(todo, payload, now) ==
  [todo EXCEPT !.title = payload.title,
               !.description = payload.description,
               !.priority = payload.priority,
               !.due_date = payload.due_date,
               !.status = "Pending",
               !.updated_at = Some(now)]

\* update_todo: the assignments to the record read from the map
ApplyPayload(todo, payload, now) ==
  [todo EXCEPT !.title = payload.title,
               !.description = payload.description,
               !.priority = payload.priority,
               !.due_date = payload.due_date,
               !.updated_at = Some(now)]

\* a status change that stamps the record as created now
ApplyStatus_Recreated(todo, status, now) ==
  [todo EXCEPT !.status = status, !.created_at = now, !.updated_at = Some(now)]

\* a status change that leaves updated_at as it was
ApplyStatus_KeepsStamp(todo, status, now) == [todo EXCEPT !.status = status]

\* update_status: the assignments to the record read from the map
ApplyStatus(todo, status, now) ==
  [todo EXCEPT !.status = status, !.updated_at = Some(now)]

\* a lookup that takes the record out of the map
get_todo_Removes(st, id) ==
  LET found == _get_todo(st.STORAGE, id)
  IN IF found # None
       THEN Reply([st EXCEPT !.STORAGE = MapRemove(st.STORAGE, id)],
                  Ok(found[1]))
       ELSE Reply(st, NotFound(<<"Todo with id=", id, " not found">>))

get_todo(st, id) ==
  LET found == _get_todo(st.STORAGE, id)
  IN IF found # None
       THEN Reply(st, Ok(found[1]))
       ELSE Reply(st, NotFound(<<"Todo with id=", id, " not found">>))

\* an add that takes its id from the counter before it validates the title
add_todo_CountsFirst(st, caller, now, payload) ==
  LET set == CellSet(st.ID_COUNTER, st.ID_COUNTER + 1)
      todo == NewTodo(set.ret, payload, now, caller)
      ins == do_insert(st.STORAGE, todo)
  IN IF TitleIsEmpty(payload)
       THEN Reply([st EXCEPT !.ID_COUNTER = set.cell],
                  InvalidInput(<<"Title cannot be empty">>))
       ELSE IF ins.ok
         THEN Reply([ID_COUNTER |-> set.cell, STORAGE |-> ins.map], Ok(todo))
         ELSE Reply(st, Trap)

add_todo(st, caller, now, payload) ==
  IF TitleIsEmpty(payload)
    THEN Reply(st, InvalidInput(<<"Title cannot be empty">>))
    ELSE
      LET set == CellSet(st.ID_COUNTER, st.ID_COUNTER + 1)
          todo == NewTodo(set.ret, payload, now, caller)
          ins == do_insert(st.STORAGE, todo)
      IN IF ins.ok
           THEN Reply([ID_COUNTER |-> set.cell, STORAGE |-> ins.map], Ok(todo))
           ELSE Reply(st, Trap)

update_todo(st, caller, now, id, payload) ==
  LET found == MapGet(st.STORAGE, id)
  IN IF found = None
       THEN Reply(st, NotFound(<<"Couldn't update todo with id=", id,
                                 ". Todo not found">>))
       ELSE IF NotOwner(found[1], caller)
         THEN Reply(st, NotFound(<<"Not authorized to update todo with id=",
                                   id>>))
         ELSE
           LET todo == ApplyPayload(found[1], payload, now)
               ins == do_insert(st.STORAGE, todo)
           IN IF ins.ok
                THEN Reply([st EXCEPT !.STORAGE = ins.map], Ok(todo))
                ELSE Reply(st, Trap)

\* a delete that hands the id of the deleted record back to the counter
delete_todo_GivesIdBack(st, caller, id) ==
  LET found == MapGet(st.STORAGE, id)
      after == [st EXCEPT !.STORAGE = MapRemove(st.STORAGE, id)]
  IN IF found = None
       THEN Reply(st, NotFound(<<"Couldn't delete todo with id=", id,
                                 ". Todo not found.">>))
       ELSE IF NotOwner(found[1], caller)
         THEN Reply(after, NotFound(<<"Not authorized to delete todo with id=",
                                      id>>))
         ELSE Reply([after EXCEPT !.ID_COUNTER = st.ID_COUNTER - 1],
                    Ok(found[1]))

\* a delete that checks the owner with a lookup before it removes
delete_todo_CheckFirst(st, caller, id) ==
  LET found == MapGet(st.STORAGE, id)
  IN IF found = None
       THEN Reply(st, NotFound(<<"Couldn't delete todo with id=", id,
                                 ". Todo not found.">>))
       ELSE IF NotOwner(found[1], caller)
         THEN Reply(st, NotFound(<<"Not authorized to delete todo with id=",
                                   id>>))
         ELSE Reply([st EXCEPT !.STORAGE = MapRemove(st.STORAGE, id)],
                    Ok(found[1]))

delete_todo(st, caller, id) ==
  LET found == MapGet(st.STORAGE, id)
      after == [st EXCEPT !.STORAGE = MapRemove(st.STORAGE, id)]
  IN IF found = None
       THEN Reply(st, NotFound(<<"Couldn't delete todo with id=", id,
                                 ". Todo not found.">>))
       ELSE IF NotOwner(found[1], caller)
         THEN Reply(after, NotFound(<<"Not authorized to delete todo with id=",
                                      id>>))
         ELSE Reply(after, Ok(found[1]))

update_status(st, caller, now, id, status) ==
  LET found == MapGet(st.STORAGE, id)
  IN IF found = None
       THEN Reply(st, NotFound(<<"Couldn't update todo status with id=", id,
                                 ". Todo not found">>))
       ELSE IF NotOwner(found[1], caller)
         THEN Reply(st, NotFound(<<"Not authorized to update todo with id=",
                                   id>>))
         ELSE
           LET todo == ApplyStatus(found[1], status, now)
               ins == do_insert(st.STORAGE, todo)
           IN IF ins.ok
                THEN Reply([st EXCEPT !.STORAGE = ins.map], Ok(todo))
                ELSE Reply(st, Trap)

-----------------------------------------------------------------------------
(* State machine: one call is processed at a time, to completion *)

\* the canister state the next call finds
Canister == [ID_COUNTER |-> ID_COUNTER, STORAGE |-> STORAGE]

\* the thread_local initialisers, run on empty stable memory
InitCanister ==
  /\ LET cell == CellInit(<<>>, INITIAL_COUNTER)
     IN ID_COUNTER = cell.value /\ CELL_MEMORY = cell.memory
  /\ STORAGE = MapInit(<<>>)
  /\ time = 0
  /\ issued = <<>>
  /\ removed = <<>>
  /\ life = <<>>

Init ==
  /\ InitCanister
  /\ rec = None
  /\ wire = <<>>
  /\ back = <<>>

\* commit the state a call leaves behind; Cell::set writes the cell through
\* to its memory
Commit(out) ==
  /\ ID_COUNTER' = out.st.ID_COUNTER
  /\ CELL_MEMORY' = IF out.st.ID_COUNTER = ID_COUNTER
                      THEN CELL_MEMORY
                      ELSE CellBytes(out.st.ID_COUNTER)
  /\ STORAGE' = out.st.STORAGE

\* history: the records the map no longer holds are forgotten
Alive(h, map) == [k \in DOMAIN h \cap DOMAIN map |-> h[k]]

\* the platform clock advances between calls
Tick ==
  /\ time < MaxTime
  /\ time' = time + 1
  /\ UNCHANGED <<ID_COUNTER, CELL_MEMORY, STORAGE, issued, removed, life>>
  /\ UNCHANGED codecVars

\* an upgrade (or restart) drops the heap and runs the thread_local
\* initialisers again on the stable memory as it is
Upgrade ==
  /\ LET cell == CellInit(CELL_MEMORY, INITIAL_COUNTER)
     IN ID_COUNTER' = cell.value /\ CELL_MEMORY' = cell.memory
  /\ STORAGE' = MapInit(STORAGE)
  /\ life' = Alive(life, STORAGE')
  /\ UNCHANGED <<time, issued, removed>>
  /\ UNCHANGED codecVars

GetTodo(id) ==
  /\ Commit(get_todo(Canister, id))
  /\ life' = Alive(life, STORAGE')
  /\ UNCHANGED <<time, issued, removed>>
  /\ UNCHANGED codecVars

\* current_value + 1 is computed in u64; the exploration stops at MaxId, far
\* below the 2^64 - 1 at which it would overflow.
AddTodo(caller, payload) ==
  /\ ID_COUNTER < MaxId
  /\ LET out == add_todo(Canister, caller, time, payload)
     IN /\ Commit(out)
        /\ issued' = IF out.result.kind = "Ok"
                       THEN Append(issued, out.result.todo.id)
                       ELSE issued
        /\ life' = IF out.result.kind = "Ok"
                     THEN LET r == out.result.todo
                          IN [k \in DOMAIN life \cup {r.id} |->
                                IF k = r.id
                                  THEN [created_at |-> time, owner |-> caller,
                                        updated |-> None]
                                  ELSE life[k]]
                     ELSE Alive(life, STORAGE')
  /\ UNCHANGED <<time, removed>>
  /\ UNCHANGED codecVars

\* history: an update of id that replied Ok is noted with its time
Touched(h, out, id, now) ==
  IF out.result.kind = "Ok" /\ id \in DOMAIN h
    THEN [h EXCEPT ![id].updated = Some(now)]
    ELSE h

UpdateTodo(caller, id, payload) ==
  /\ LET out == update_todo(Canister, caller, time, id, payload)
     IN /\ Commit(out)
        /\ life' = Alive(Touched(life, out, id, time), STORAGE')
  /\ UNCHANGED <<time, issued, removed>>
  /\ UNCHANGED codecVars

DeleteTodo(caller, id) ==
  /\ LET out == delete_todo(Canister, caller, id)
     IN /\ Commit(out)
        /\ removed' = IF id \in DOMAIN STORAGE \ DOMAIN out.st.STORAGE
                        THEN [k \in DOMAIN removed \cup {id} |->
                                IF k = id THEN out.result.kind ELSE removed[k]]
                        ELSE removed
        /\ life' = Alive(life, STORAGE')
  /\ UNCHANGED <<time, issued>>
  /\ UNCHANGED codecVars

UpdateStatus(caller, id, status) ==
  /\ LET out == update_status(Canister, caller, time, id, status)
     IN /\ Commit(out)
        /\ life' = Alive(Touched(life, out, id, time), STORAGE')
  /\ UNCHANGED <<time, issued, removed>>
  /\ UNCHANGED codecVars

Next ==
  \/ Tick
  \/ Upgrade
  \/ \E id \in Ids : GetTodo(id)
  \/ \E caller \in Callers, payload \in Payloads : AddTodo(caller, payload)
  \/ \E caller \in Callers, id \in Ids, payload \in Payloads :
       UpdateTodo(caller, id, payload)
  \/ \E caller \in Callers, id \in Ids : DeleteTodo(caller, id)
  \/ \E caller \in Callers, id \in Ids, status \in TaskStatus :
       UpdateStatus(caller, id, status)

Spec == Init /\ [][Next]_vars

TypeOK ==
  /\ ID_COUNTER \in 0..MaxId
  /\ time \in 0..MaxTime
  /\ DOMAIN STORAGE \subseteq 0..MaxId

-----------------------------------------------------------------------------
(* Codec runs: one record is encoded with to_bytes and the bytes are       *)
(* decoded with from_bytes; the canister is left as initialised.           *)

\* a title whose length prefix takes two bytes
LongTitle == [i \in 1..129 |-> 98]

\* records of every TaskStatus and Priority, with due_date and updated_at
\* present and absent, one- and several-byte numbers, short and long text
Records ==
  [id : {0, 258},
   title : {EmptyTitle, PaddedTitle, LongTitle},
   description : {<<>>, <<100>>},
   status : TaskStatus,
   priority : Priority,
   due_date : {None, Some(0), Some(16909060)},
   created_at : {1, 65536},
   updated_at : {None, Some(513)},
   owner : Callers]

InitCodec ==
  /\ InitCanister
  /\ rec \in Records
  /\ wire = <<>>
  /\ back = <<>>

Encode ==
  /\ wire = <<>>
  /\ wire' = <<to_bytes(rec)>>
  /\ UNCHANGED <<ID_COUNTER, CELL_MEMORY, STORAGE, time, issued, removed, life,
                 rec, back>>

Decode ==
  /\ wire # <<>>
  /\ back = <<>>
  /\ back' = <<from_bytes(wire[1])>>
  /\ UNCHANGED <<ID_COUNTER, CELL_MEMORY, STORAGE, time, issued, removed, life,
                 rec, wire>>

NextCodec == Encode \/ Decode

SpecCodec == InitCodec /\ [][NextCodec]_vars

-----------------------------------------------------------------------------
(* Properties *)

\* the record stored under id
Stored(id) == from_bytes(STORAGE[id])

\* the canister state the first call after an upgrade finds: the heap is
\* rebuilt by the initialisers from the stable memories
AfterUpgrade ==
  [ID_COUNTER |-> CellInit(CELL_MEMORY, INITIAL_COUNTER).value,
   STORAGE |-> MapInit(STORAGE)]

\* C1: the ids returned by successful add_todo calls are strictly
\* increasing, whatever update_todo, update_status and delete_todo calls
\* came in between: each id add_todo has returned is below the later ones,
\* and the id the next successful add_todo returns is above all of them,
\* those of deleted records included.
C1_IdsStrictlyIncreasing ==
  /\ \A i, j \in 1..Len(issued) : i < j => issued[i] < issued[j]
  /\ \A caller \in Callers, payload \in Payloads :
       LET out == add_todo(Canister, caller, time, payload)
       IN out.result.kind = "Ok" =>
            /\ \A i \in 1..Len(issued) : issued[i] < out.result.todo.id
            /\ \A id \in DOMAIN removed : id < out.result.todo.id

\* add_todo has returned an id, its record was deleted, and a further
\* add_todo succeeds
C1_Witness ==
  /\ issued # <<>>
  /\ \E i \in 1..Len(issued) : issued[i] \in DOMAIN removed
  /\ \E caller \in Callers, payload \in Payloads :
       add_todo(Canister, caller, time, payload).result.kind = "Ok"

\* C2 as stated: add_todo reads the counter value c, persists c + 1 and
\* gives the new record the id c + 1; the first record has id 1.
C2_IdIsNewValue ==
  /\ \A caller \in Callers, payload \in Payloads :
       LET out == add_todo(Canister, caller, time, payload)
       IN out.result.kind = "Ok" =>
            /\ out.st.ID_COUNTER = ID_COUNTER + 1
            /\ out.result.todo.id = ID_COUNTER + 1
  /\ issued # <<>> => issued[1] = INITIAL_COUNTER + 1

\* C2 amended: add_todo reads the counter value c, persists c + 1 and gives
\* the new record the id c, the value it read; the first record has id 0.
C2_IdIsValueRead ==
  /\ \A caller \in Callers, payload \in Payloads :
       LET out == add_todo(Canister, caller, time, payload)
       IN out.result.kind = "Ok" =>
            /\ out.st.ID_COUNTER = ID_COUNTER + 1
            /\ out.result.todo.id = ID_COUNTER
  /\ issued # <<>> => issued[1] = INITIAL_COUNTER

\* two add_todo calls have succeeded
C2_Witness == Len(issued) = 2 /\ ID_COUNTER = 2

\* C3: when add_todo returns a record, get_todo of its id returns a record
\* equal to it in every field, and the record has status Pending, no
\* updated_at, the caller as owner and the payload's title, description,
\* priority and due_date.
C3_AddThenGet ==
  \A caller \in Callers, payload \in Payloads :
    LET out == add_todo(Canister, caller, time, payload)
    IN out.result.kind = "Ok" =>
         LET r == out.result.todo
         IN /\ get_todo(out.st, r.id).result = Ok(r)
            /\ r.status = "Pending"
            /\ r.updated_at = None
            /\ r.created_at = time
            /\ r.owner = caller
            /\ r.title = payload.title
            /\ r.description = payload.description
            /\ r.priority = payload.priority
            /\ r.due_date = payload.due_date

\* a record that add_todo stored with a due date is read back by get_todo,
\* and a further add_todo with a due date succeeds
C3_Witness ==
  /\ \E i \in 1..Len(issued) :
       LET got == get_todo(Canister, issued[i]).result
       IN /\ got.kind = "Ok"
          /\ got.todo.updated_at = None
          /\ got.todo.due_date # None
  /\ \E caller \in Callers, payload \in Payloads :
       /\ payload.due_date # None
       /\ add_todo(Canister, caller, time, payload).result.kind = "Ok"

\* C4 as stated: add_todo returns Ok for every payload whose title is not
\* empty after trimming, InvalidInput("Title cannot be empty") for every
\* payload whose title trims to empty, and never NotFound.
C4_AddSucceedsUnlessTitleEmpty ==
  \A caller \in Callers, payload \in Payloads :
    LET res == add_todo(Canister, caller, time, payload).result
    IN /\ trim(payload.title) # <<>> => res.kind = "Ok"
       /\ trim(payload.title) = <<>> =>
            res = InvalidInput(<<"Title cannot be empty">>)
       /\ res.kind # "NotFound"

\* C5: update_todo, delete_todo and update_status on an existing record by
\* a caller other than its owner reply NotFound; each of the three replies
\* Ok only for an existing record whose stored owner equals the caller.
C5_NonOwnerGetsNotFound ==
  \A caller \in Callers, id \in Ids :
    LET mine == id \in DOMAIN STORAGE /\ Stored(id).owner = caller
        theirs == id \in DOMAIN STORAGE /\ Stored(id).owner # caller
        del == delete_todo(Canister, caller, id).result.kind
    IN /\ theirs => del = "NotFound"
       /\ del = "Ok" => mine
       /\ \A payload \in Payloads :
            LET upd == update_todo(Canister, caller, time, id, payload).result.kind
            IN (theirs => upd = "NotFound") /\ (upd = "Ok" => mine)
       /\ \A status \in TaskStatus :
            LET upd == update_status(Canister, caller, time, id, status).result.kind
            IN (theirs => upd = "NotFound") /\ (upd = "Ok" => mine)

\* a record is stored that some caller does not own, after a delete_todo by
\* a caller who was not the owner replied NotFound
C5_Witness ==
  /\ \E caller \in Callers, id \in DOMAIN STORAGE : Stored(id).owner # caller
  /\ \E id \in DOMAIN removed : removed[id] = "NotFound"

\* C6: delete_todo(id) on an existing record by a caller other than its
\* owner replies NotFound and leaves the map without the record, so that
\* get_todo(id) then replies NotFound.
C6_NonOwnerDeleteRemoves ==
  /\ \A caller \in Callers, id \in DOMAIN STORAGE :
       Stored(id).owner # caller =>
         LET out == delete_todo(Canister, caller, id)
         IN /\ out.result.kind = "NotFound"
            /\ id \notin DOMAIN out.st.STORAGE
            /\ get_todo(out.st, id).result.kind = "NotFound"
  /\ \A id \in DOMAIN removed :
       removed[id] = "NotFound" =>
         get_todo(Canister, id).result =
           NotFound(<<"Todo with id=", id, " not found">>)

\* a delete_todo that replied NotFound has removed a record, and another
\* record is stored that some caller does not own
C6_Witness ==
  /\ \E id \in DOMAIN removed :
       removed[id] = "NotFound" /\ id \notin DOMAIN STORAGE
  /\ \E caller \in Callers, id \in DOMAIN STORAGE : Stored(id).owner # caller

\* C7 as stated: every record in the map has a title that is not empty
\* after trimming.
C7_StoredTitlesNonEmpty ==
  \A id \in DOMAIN STORAGE : trim(Stored(id).title) # <<>>

\* C8: an update_todo that replies Ok was called by the owner; it sets
\* title, description, priority and due_date of the stored record to the
\* payload's values and updated_at to Some(now), leaves id, created_at,
\* owner and status as they were, and replies with the stored record.
C8_UpdateTodoFrame ==
  \A caller \in Callers, id \in Ids, payload \in Payloads :
    LET out == update_todo(Canister, caller, time, id, payload)
    IN out.result.kind = "Ok" =>
         LET old == Stored(id)
             new == from_bytes(out.st.STORAGE[id])
         IN /\ old.owner = caller
            /\ new.title = payload.title
            /\ new.description = payload.description
            /\ new.priority = payload.priority
            /\ new.due_date = payload.due_date
            /\ new.updated_at = Some(time)
            /\ new.id = old.id
            /\ new.created_at = old.created_at
            /\ new.owner = old.owner
            /\ new.status = old.status
            /\ out.result.todo = new

\* update_todo has stored an empty title in a record that is not Pending
\* and was created at an earlier time, and a further update_todo succeeds
C8_Witness ==
  \E id \in DOMAIN STORAGE :
    /\ Stored(id).title = EmptyTitle
    /\ Stored(id).status # "Pending"
    /\ Stored(id).updated_at # Some(Stored(id).created_at)
    /\ \E payload \in Payloads :
         /\ payload.title # EmptyTitle
         /\ update_todo(Canister, Stored(id).owner, time, id, payload).result.kind
              = "Ok"

\* C9 as stated: update_status(id, s) by the owner replies Ok for every
\* current status and every s, changes status to s and updated_at to
\* Some(now), and leaves the other fields as they were.
C9_UpdateStatusAlwaysSucceeds ==
  \A caller \in Callers, id \in DOMAIN STORAGE, status \in TaskStatus :
    Stored(id).owner = caller =>
      LET out == update_status(Canister, caller, time, id, status)
      IN /\ out.result.kind = "Ok"
         /\ from_bytes(out.st.STORAGE[id]) =
              [Stored(id) EXCEPT !.status = status, !.updated_at = Some(time)]

\* C10: delete_todo(id) by the owner replies Ok with the record as stored
\* and leaves the map without it; an id removed by such a call is never in
\* the map again: get_todo, update_todo, update_status and delete_todo on it
\* reply NotFound, whatever calls (add_todo included) came after.
C10_DeletedStaysDeleted ==
  /\ \A caller \in Callers, id \in DOMAIN STORAGE :
       Stored(id).owner = caller =>
         LET out == delete_todo(Canister, caller, id)
         IN /\ out.result = Ok(Stored(id))
            /\ id \notin DOMAIN out.st.STORAGE
  /\ \A id \in DOMAIN removed :
       removed[id] = "Ok" =>
         /\ id \notin DOMAIN STORAGE
         /\ get_todo(Canister, id).result.kind = "NotFound"
         /\ \A caller \in Callers :
              /\ delete_todo(Canister, caller, id).result.kind = "NotFound"
              /\ \A payload \in Payloads :
                   update_todo(Canister, caller, time, id, payload).result.kind
                     = "NotFound"
              /\ \A status \in TaskStatus :
                   update_status(Canister, caller, time, id, status).result.kind
                     = "NotFound"

\* the owner has deleted the first record, a record added later is stored,
\* and its owner can delete it
C10_Witness ==
  /\ \E id \in DOMAIN removed :
       /\ removed[id] = "Ok"
       /\ \E later \in DOMAIN STORAGE : id < later
  /\ ID_COUNTER = MaxId

\* C11: get_todo reads no caller and changes nothing: it leaves the counter
\* and the map as they are, replies Ok with the record stored under id (the
\* record whose encoding the map holds) when id is in the map, and replies
\* NotFound("Todo with id=<id> not found") when it is not.
C11_GetTodoReadsOnly ==
  \A id \in Ids :
    LET out == get_todo(Canister, id)
    IN /\ out.st = Canister
       /\ id \in DOMAIN STORAGE =>
            /\ out.result.kind = "Ok"
            /\ out.result.todo.id = id
            /\ to_bytes(out.result.todo) = STORAGE[id]
       /\ id \notin DOMAIN STORAGE =>
            out.result = NotFound(<<"Todo with id=", id, " not found">>)

\* records of both callers are stored, so whoever calls get_todo reads a
\* record that is not theirs, and an id is not in the map
C11_Witness ==
  /\ \A caller \in Callers :
       \E id \in DOMAIN STORAGE : Stored(id).owner = caller
  /\ \E id \in Ids : id \notin DOMAIN STORAGE

\* C12: every stored record has the id it is stored under and the
\* created_at and owner it was created with, whatever update_todo and
\* update_status calls were made on it since.
C12_IdentityImmutable ==
  \A id \in DOMAIN STORAGE :
    /\ id \in DOMAIN life
    /\ Stored(id).id = id
    /\ Stored(id).created_at = life[id].created_at
    /\ Stored(id).owner = life[id].owner

\* a record created at an earlier time has been updated with a new title
\* and a new status
C12_Witness ==
  \E id \in DOMAIN STORAGE :
    /\ id \in DOMAIN life
    /\ life[id].created_at < time
    /\ life[id].updated = Some(time)
    /\ Stored(id).title = BlankTitle
    /\ Stored(id).status = "Completed"

\* C13: the counter starts at 0 and is 0 plus the number of add_todo calls
\* that replied Ok; add_todo raises it by exactly 1 when it replies Ok and
\* leaves it otherwise; get_todo, update_todo, update_status and
\* delete_todo leave it, whatever they reply.
C13_CounterMonotonic ==
  /\ ID_COUNTER = INITIAL_COUNTER + Len(issued)
  /\ \A caller \in Callers :
       /\ \A payload \in Payloads :
            LET out == add_todo(Canister, caller, time, payload)
            IN out.st.ID_COUNTER =
                 IF out.result.kind = "Ok" THEN ID_COUNTER + 1 ELSE ID_COUNTER
       /\ \A id \in Ids :
            /\ get_todo(Canister, id).st.ID_COUNTER = ID_COUNTER
            /\ delete_todo(Canister, caller, id).st.ID_COUNTER = ID_COUNTER
            /\ \A payload \in Payloads :
                 update_todo(Canister, caller, time, id, payload).st.ID_COUNTER
                   = ID_COUNTER
            /\ \A status \in TaskStatus :
                 update_status(Canister, caller, time, id, status).st.ID_COUNTER
                   = ID_COUNTER

\* two records were added, one was deleted by its owner, the other updated
C13_Witness ==
  /\ Len(issued) = 2
  /\ \E id \in DOMAIN removed : removed[id] = "Ok"
  /\ \E id \in DOMAIN STORAGE : Stored(id).updated_at # None

\* C14: a stored record has updated_at = None when no update_todo or
\* update_status on it has replied Ok since its creation, and Some(t), t
\* the time of the last such call, otherwise; an update that replies Ok
\* stores Some(now), and one by a caller who is not the owner leaves the
\* map as it is.
C14_UpdatedAtTracksUpdates ==
  /\ \A id \in DOMAIN STORAGE :
       id \in DOMAIN life /\ Stored(id).updated_at = life[id].updated
  /\ \A caller \in Callers, id \in DOMAIN STORAGE :
       /\ \A payload \in Payloads :
            LET out == update_todo(Canister, caller, time, id, payload)
            IN /\ out.result.kind = "Ok" =>
                    from_bytes(out.st.STORAGE[id]).updated_at = Some(time)
               /\ Stored(id).owner # caller => out.st.STORAGE = STORAGE
       /\ \A status \in TaskStatus :
            LET out == update_status(Canister, caller, time, id, status)
            IN /\ out.result.kind = "Ok" =>
                    from_bytes(out.st.STORAGE[id]).updated_at = Some(time)
               /\ Stored(id).owner # caller => out.st.STORAGE = STORAGE

\* one record was never updated, another was updated after the clock moved
C14_Witness ==
  /\ \E id \in DOMAIN STORAGE : Stored(id).updated_at = None
  /\ \E id \in DOMAIN STORAGE :
       /\ Stored(id).updated_at = Some(time)
       /\ Stored(id).created_at < time

\* C15 as stated: the encoding of every record that add_todo or
\* update_todo hands to the map is at most MAX_SIZE bytes long.
C15_HandedRecordsFit ==
  \A caller \in Callers, payload \in Payloads :
    /\ ~TitleIsEmpty(payload) =>
         Len(to_bytes(NewTodo(ID_COUNTER, payload, time, caller))) <= MAX_SIZE
    /\ \A id \in DOMAIN STORAGE :
         Stored(id).owner = caller =>
           Len(to_bytes(ApplyPayload(Stored(id), payload, time))) <= MAX_SIZE

\* C16: the initialisers, run again on the stable memories after an upgrade
\* or restart, rebuild the counter value and the map the canister had, and
\* an add_todo made then still gets an id above every id issued before.
C16_UpgradePreservesState ==
  /\ AfterUpgrade = Canister
  /\ \A caller \in Callers, payload \in Payloads :
       LET out == add_todo(AfterUpgrade, caller, time, payload)
       IN out.result.kind = "Ok" =>
            \A i \in 1..Len(issued) : issued[i] < out.result.todo.id

\* ids were issued, a record is stored and another was deleted; an upgrade
\* can happen in this state, and an add_todo after it succeeds
C16_Witness ==
  /\ Len(issued) = 2
  /\ STORAGE # <<>>
  /\ removed # <<>>
  /\ \E caller \in Callers, payload \in Payloads :
       add_todo(AfterUpgrade, caller, time, payload).result.kind = "Ok"

\* C17: decoding the encoding of a record gives the record back, equal in
\* every field, for each TaskStatus and Priority and with due_date and
\* updated_at present or absent.
C17_RoundTrip == back # <<>> => back[1] = rec

\* a record with a long title, a due date and no updated_at, and one with a
\* status and a priority that are not the defaults, have been decoded
C17_Witness ==
  /\ back # <<>>
  /\ \/ Len(rec.title) > 127 /\ rec.due_date # None /\ rec.updated_at = None
     \/ rec.status = "Completed" /\ rec.priority = "Urgent"

\* C18: an add_todo that replies InvalidInput, an update_todo or
\* update_status that replies NotFound, and a delete_todo of an id that is
\* not in the map (which replies NotFound) leave the counter and the map as
\* they were.
C18_FailedCallsChangeNothing ==
  \A caller \in Callers :
    /\ \A payload \in Payloads :
         LET out == add_todo(Canister, caller, time, payload)
         IN out.result.kind = "InvalidInput" => out.st = Canister
    /\ \A id \in Ids :
         /\ \A payload \in Payloads :
              LET out == update_todo(Canister, caller, time, id, payload)
              IN out.result.kind = "NotFound" => out.st = Canister
         /\ \A status \in TaskStatus :
              LET out == update_status(Canister, caller, time, id, status)
              IN out.result.kind = "NotFound" => out.st = Canister
         /\ id \notin DOMAIN STORAGE =>
              LET out == delete_todo(Canister, caller, id)
              IN out.result.kind = "NotFound" /\ out.st = Canister

\* with a record stored and an id issued and removed, a caller who is not
\* the owner gets NotFound from update_todo, and an add_todo is rejected
C18_Witness ==
  /\ \E id \in DOMAIN removed : id \notin DOMAIN STORAGE
  /\ \E caller \in Callers, id \in DOMAIN STORAGE, payload \in Payloads :
       /\ Stored(id).owner # caller
       /\ update_todo(Canister, caller, time, id, payload).result.kind
            = "NotFound"
       /\ add_todo(Canister, caller, time, payload).result.kind
            = "InvalidInput"

\* C19: every entry of the map holds a record whose id is its key, and
\* every key is an id add_todo has issued, below the counter.
C19_KeysAreIssuedIds ==
  \A k \in DOMAIN STORAGE :
    /\ Stored(k).id = k
    /\ k < ID_COUNTER
    /\ \E i \in 1..Len(issued) : issued[i] = k

\* two records are stored and one of them has been updated
C19_Witness ==
  /\ Cardinality(DOMAIN STORAGE) = 2
  /\ \E k \in DOMAIN STORAGE : Stored(k).updated_at # None

\* the entries of map other than id are the entries of the map after the
\* call that out is the outcome of
OthersKept(map, out, id) ==
  /\ DOMAIN out.st.STORAGE \ {id} = DOMAIN map \ {id}
  /\ \A k \in DOMAIN map \ {id} : out.st.STORAGE[k] = map[k]

\* C20: update_todo, update_status and delete_todo of id leave every entry
\* with another key as it was; an add_todo that replies Ok inserts under a
\* key that was not in the map and leaves every entry that was.
C20_OneEntryTouched ==
  \A caller \in Callers :
    /\ \A id \in Ids :
         /\ OthersKept(STORAGE, delete_todo(Canister, caller, id), id)
         /\ \A payload \in Payloads :
              OthersKept(STORAGE,
                         update_todo(Canister, caller, time, id, payload), id)
         /\ \A status \in TaskStatus :
              OthersKept(STORAGE,
                         update_status(Canister, caller, time, id, status), id)
    /\ \A payload \in Payloads :
         LET out == add_todo(Canister, caller, time, payload)
         IN out.result.kind = "Ok" =>
              /\ out.result.todo.id \notin DOMAIN STORAGE
              /\ out.result.todo.id \in DOMAIN out.st.STORAGE
              /\ OthersKept(STORAGE, out, out.result.todo.id)

\* two records are stored, so each call on one has another to leave alone,
\* and a further add_todo succeeds
C20_Witness ==
  /\ Cardinality(DOMAIN STORAGE) = 2
  /\ \E k \in DOMAIN STORAGE : Stored(k).status = "InProgress"
  /\ \E caller \in Callers, payload \in Payloads :
       add_todo(Canister, caller, time, payload).result.kind = "Ok"

====
